---- MODULE Spec2Model ----
(***************************************************************************)
(* Model of scripts/lib/openai_reddit.py: search_reddit (depth profile,    *)
(* mock seam, one transport call) and parse_reddit_response (error         *)
(* short-circuit, text extraction, JSON carving, per-item normalisation).  *)
(*                                                                         *)
(* Python values are tagged records:                                       *)
(*   None   [k |-> "null"]            bool  [k |-> "bool",  b |-> BOOLEAN] *)
(*   int    [k |-> "int", n |-> Int]  float [k |-> "float", t |-> tenths]  *)
(*   str    [k |-> "str", s |-> sequence of one-character strings]         *)
(*   str    [k |-> "text", toks |-> sequence of JSON-level tokens]         *)
(*   list   [k |-> "list", l |-> sequence of values]                       *)
(*   dict   [k |-> "dict", d |-> function from the keys (strings) to values]*)
(* A float is held in tenths (17 is 1.7).  A "text" is a Python str seen   *)
(* at the granularity the regex and json.loads care about.                 *)
(***************************************************************************)
EXTENDS Integers, Sequences, FiniteSets, TLC

VARIABLES pc, depth, mock, min_items, max_items, timeout, post_calls,
          search_out, response, output_text, items, result, reparsed

vars == <<pc, depth, mock, min_items, max_items, timeout, post_calls,
          search_out, response, output_text, items, result, reparsed>>

(* ------------------------------ bounds --------------------------------- *)

\* longest "items" list built from the core entries
MaxItems == 2

\* longest subreddit name enumerated over SubChars
MaxSubLen == 4

\* longest list-valued output
MaxOut == 2

(* ------------------------------ values --------------------------------- *)

None == [k |-> "null"]
Bool(b) == [k |-> "bool", b |-> b]
Int_(n) == [k |-> "int", n |-> n]
Float(t) == [k |-> "float", t |-> t]
Str(s) == [k |-> "str", s |-> s]
Text(toks) == [k |-> "text", toks |-> toks]
List(l) == [k |-> "list", l |-> l]
Dict(d) == [k |-> "dict", d |-> d]

EmptyStr == Str(<<>>)
EmptyDict == Dict(<<>>)
EmptyList == List(<<>>)

\* isinstance(v, str) / isinstance(v, dict) / isinstance(v, list)
IsStr(v) == v.k \in {"str", "text"}
IsDict(v) == v.k = "dict"
IsList(v) == v.k = "list"

\* Python truth value of v
Truthy(v) ==
  CASE v.k = "null" -> FALSE
    [] v.k = "bool" -> v.b
    [] v.k = "int" -> v.n /= 0
    [] v.k = "float" -> v.t /= 0
    [] v.k = "str" -> Len(v.s) > 0
    [] v.k = "text" -> Len(v.toks) > 0
    [] v.k = "list" -> Len(v.l) > 0
    [] v.k = "dict" -> DOMAIN v.d /= {}

\* key in d
Has(d, key) == key \in DOMAIN d.d

\* d.get(key, default)
Get(d, key, default) == IF Has(d, key) THEN d.d[key] ELSE default

(* ------------------------------ strings -------------------------------- *)

S_reddit_com == <<"r","e","d","d","i","t",".","c","o","m">>
S_message == <<"m","e","s","s","a","g","e">>
S_output_text == <<"o","u","t","p","u","t","_","t","e","x","t">>
S_items == <<"i","t","e","m","s">>
S_None == <<"N","o","n","e">>
S_True == <<"T","r","u","e">>
S_False == <<"F","a","l","s","e">>

Digits == {"0","1","2","3","4","5","6","7","8","9"}
DigitChar == <<"0","1","2","3","4","5","6","7","8","9">>
Whitespace == {" ", "\n", "\t"}

\* needle in hay, for two strings
Contains(hay, needle) ==
  \E i \in 1..(Len(hay) - Len(needle) + 1) :
    SubSeq(hay, i, i + Len(needle) - 1) = needle

RECURSIVE LStripSet(_, _)
\* s.lstrip(chars): drop leading characters that belong to the set
LStripSet(s, set) ==
  IF Len(s) > 0 /\ Head(s) \in set THEN LStripSet(Tail(s), set) ELSE s

RECURSIVE RStripSet(_, _)
RStripSet(s, set) ==
  IF Len(s) > 0 /\ s[Len(s)] \in set
  THEN RStripSet(SubSeq(s, 1, Len(s) - 1), set) ELSE s

\* s.strip()
Strip(s) == RStripSet(LStripSet(s, Whitespace), Whitespace)

RECURSIVE NatStr(_)
\* decimal digits of a natural number
NatStr(n) == IF n < 10 THEN <<DigitChar[n + 1]>>
             ELSE NatStr(n \div 10) \o <<DigitChar[(n % 10) + 1]>>

\* str(n) for an int
IntStr(n) == IF n < 0 THEN <<"-">> \o NatStr(-n) ELSE NatStr(n)

\* str(x) for a float held in tenths
FloatStr(t) ==
  LET a == IF t < 0 THEN -t ELSE t
  IN (IF t < 0 THEN <<"-">> ELSE <<>>)
       \o NatStr(a \div 10) \o <<".">> \o NatStr(a % 10)

RECURSIVE PyRepr(_)
RECURSIVE JoinRepr(_, _)
\* ", ".join(repr(e) for e in l[i:])
JoinRepr(l, i) ==
  IF i > Len(l) THEN <<>>
  ELSE PyRepr(l[i]) \o (IF i < Len(l) THEN <<",", " ">> ELSE <<>>) \o JoinRepr(l, i + 1)

\* repr(v); a dict is rendered only when empty (no other dict is coerced)
PyRepr(v) ==
  CASE v.k = "null" -> S_None
    [] v.k = "bool" -> IF v.b THEN S_True ELSE S_False
    [] v.k = "int" -> IntStr(v.n)
    [] v.k = "float" -> FloatStr(v.t)
    [] v.k = "str" -> <<"'">> \o v.s \o <<"'">>
    [] v.k = "list" -> <<"[">> \o JoinRepr(v.l, 1) \o <<"]">>
    [] v.k = "dict" /\ DOMAIN v.d = {} -> <<"{", "}">>

\* str(v)
PyStr(v) == IF v.k = "str" THEN v.s ELSE PyRepr(v)

(* ------------------------ outcomes of a step --------------------------- *)

\* F applied to the value of v, which is computed once
Let(v, F(_)) == CHOOSE y \in {F(x) : x \in {v}} : TRUE

\* a step that returned v / a step that raised exception exc
Ok(v) == [raised |-> FALSE, v |-> v]
Raise(exc) == [raised |-> TRUE, exc |-> exc]

(* --------------------------- JSON texts -------------------------------- *)

K_error == <<"e","r","r","o","r">>
K_output == <<"o","u","t","p","u","t">>
K_choices == <<"c","h","o","i","c","e","s">>
K_type == <<"t","y","p","e">>
K_content == <<"c","o","n","t","e","n","t">>
K_text == <<"t","e","x","t">>
K_id == <<"i","d">>
K_title == <<"t","i","t","l","e">>
K_url == <<"u","r","l">>
K_subreddit == <<"s","u","b","r","e","d","d","i","t">>
K_date == <<"d","a","t","e">>
K_why_relevant == <<"w","h","y","_","r","e","l","e","v","a","n","t">>
K_relevance == <<"r","e","l","e","v","a","n","c","e">>
K_data == <<"d","a","t","a">>

\* tokens of a text: punctuation, a scalar literal, or a run of prose
\* (prose holds no brace and no quoted "items")
LBrace == [t |-> "{"]
RBrace == [t |-> "}"]
LBrack == [t |-> "["]
RBrack == [t |-> "]"]
Comma == [t |-> ","]
Colon == [t |-> ":"]
Prose == [t |-> "prose"]
Lit(v) == [t |-> "lit", v |-> v]

\* the order in which the keys of a dict are written out: the insertion
\* order of the dicts the parser builds, other keys after them
KeyOrder == <<S_items, K_id, K_title, K_url, K_subreddit, K_date,
              K_why_relevant, K_relevance, K_data, S_reddit_com>>

RECURSIVE Dumps(_)
RECURSIVE DumpsElems(_, _)
RECURSIVE DumpsMembers(_, _, _)

DumpsElems(l, i) ==
  IF i > Len(l) THEN <<>>
  ELSE Dumps(l[i]) \o (IF i < Len(l) THEN <<Comma>> ELSE <<>>) \o DumpsElems(l, i + 1)

DumpsMembers(d, i, first) ==
  IF i > Len(KeyOrder) THEN <<>>
  ELSE IF KeyOrder[i] \in DOMAIN d
       THEN (IF first THEN <<>> ELSE <<Comma>>)
              \o <<Lit(Str(KeyOrder[i])), Colon>> \o Dumps(d[KeyOrder[i]])
              \o DumpsMembers(d, i + 1, FALSE)
       ELSE DumpsMembers(d, i + 1, first)

\* json.dumps(v), as tokens
Dumps(v) ==
  CASE v.k = "list" -> <<LBrack>> \o DumpsElems(v.l, 1) \o <<RBrack>>
    [] v.k = "dict" -> <<LBrace>> \o DumpsMembers(v.d, 1, TRUE) \o <<RBrace>>
    [] OTHER -> <<Lit(v)>>

Failed == [ok |-> FALSE]
Parsed(v, next) == [ok |-> TRUE, v |-> v, next |-> next]

RECURSIVE ParseValue(_, _)
RECURSIVE ParseElems(_, _, _, _)
RECURSIVE ParseMembers(_, _, _, _)

\* the elements of an array, after its "[" ; acc holds those read so far
ParseElems(toks, i, acc, first) ==
  IF i > Len(toks) THEN Failed
  ELSE IF first /\ toks[i] = RBrack THEN Parsed(List(acc), i + 1)
  ELSE Let(ParseValue(toks, i), LAMBDA r :
         IF ~r.ok \/ r.next > Len(toks) THEN Failed
         ELSE IF toks[r.next] = Comma
              THEN ParseElems(toks, r.next + 1, Append(acc, r.v), FALSE)
         ELSE IF toks[r.next] = RBrack
              THEN Parsed(List(Append(acc, r.v)), r.next + 1)
         ELSE Failed)

\* the members of an object, after its "{" ; a repeated key keeps its last value
ParseMembers(toks, i, acc, first) ==
  IF i > Len(toks) THEN Failed
  ELSE IF first /\ toks[i] = RBrace THEN Parsed(Dict(acc), i + 1)
  ELSE IF ~(toks[i].t = "lit" /\ toks[i].v.k = "str") THEN Failed
  ELSE IF i + 1 > Len(toks) \/ toks[i + 1] /= Colon THEN Failed
  ELSE Let(ParseValue(toks, i + 2), LAMBDA r :
         IF ~r.ok \/ r.next > Len(toks) THEN Failed
         ELSE IF toks[r.next] = Comma
              THEN ParseMembers(toks, r.next + 1, (toks[i].v.s :> r.v) @@ acc, FALSE)
         ELSE IF toks[r.next] = RBrace
              THEN Parsed(Dict((toks[i].v.s :> r.v) @@ acc), r.next + 1)
         ELSE Failed)

\* one JSON value starting at token i
ParseValue(toks, i) ==
  IF i > Len(toks) THEN Failed
  ELSE CASE toks[i].t = "lit" -> Parsed(toks[i].v, i + 1)
         [] toks[i] = LBrack -> ParseElems(toks, i + 1, <<>>, TRUE)
         [] toks[i] = LBrace -> ParseMembers(toks, i + 1, <<>>, TRUE)
         [] OTHER -> Failed

\* json.loads(toks): Ok(value), or the JSONDecodeError
Loads(toks) ==
  Let(ParseValue(toks, 1), LAMBDA r :
    IF r.ok /\ r.next = Len(toks) + 1 THEN Ok(r.v) ELSE Raise("JSONDecodeError"))

IsItemsLit(tok) == tok = Lit(Str(S_items))

\* re.search(r'\{[\s\S]*"items"[\s\S]*\}', text).group(): the tokens from the
\* first "{" that has a quoted "items" and then a "}" after it, up to the last
\* "}" of the text; <<>> when there is no match
JsonMatch(toks) ==
  LET n == Len(toks)
      opens == {i \in 1..n : /\ toks[i] = LBrace
                             /\ \E j \in (i + 1)..n : /\ IsItemsLit(toks[j])
                                                      /\ \E c \in (j + 1)..n : toks[c] = RBrace}
      closes == {c \in 1..n : toks[c] = RBrace}
  IN IF opens = {} THEN <<>>
     ELSE LET a == CHOOSE i \in opens : \A o \in opens : i <= o
              b == CHOOSE c \in closes : \A o \in closes : o <= c
          IN SubSeq(toks, a, b)

(* ----------------------- parse_reddit_response ------------------------- *)

\* the short-circuit taken only for dict-valued errors
ErrorShortCircuitDictOnly(resp) ==
  Has(resp, K_error) /\ IsDict(resp.d[K_error]) /\ Truthy(resp.d[K_error])

\* "error" in response and response["error"]
ErrorShortCircuit(resp) == Has(resp, K_error) /\ Truthy(resp.d[K_error])

\* the sequence a for loop walks over v: the elements of a list, the
\* characters of a str, the keys of a dict; any other value is not iterable
Iterable(v) == v.k \in {"list", "str", "dict"}
Iterate(v) ==
  CASE v.k = "list" -> v.l
    [] v.k = "str" -> [i \in 1..Len(v.s) |-> Str(<<v.s[i]>>)]
    [] v.k = "dict" -> LET InD(key) == key \in DOMAIN v.d
                           keys == SelectSeq(KeyOrder, InD)
                       IN [i \in 1..Len(keys) |-> Str(keys[i])]

\* the inner loop over a message's content: output_text after it
ContentScan(content, cur) ==
  IF ~Iterable(content) THEN Raise("TypeError")
  ELSE LET cs == Iterate(content)
           hits == {j \in 1..Len(cs) : /\ IsDict(cs[j])
                                       /\ Get(cs[j], K_type, None) = Str(S_output_text)}
       IN IF hits = {} THEN Ok(cur)
          ELSE LET j == CHOOSE h \in hits : \A o \in hits : h <= o
               IN Ok(Get(cs[j], K_text, EmptyStr))

\* one pass of the loop over output: output_text after entry `item`
EntryText(item, cur) ==
  IF IsDict(item)
  THEN IF Get(item, K_type, None) = Str(S_message)
       THEN ContentScan(Get(item, K_content, EmptyList), cur)
       ELSE IF Has(item, K_text) THEN Ok(item.d[K_text]) ELSE Ok(cur)
  ELSE IF IsStr(item) THEN Ok(item) ELSE Ok(cur)

RECURSIVE ScanOutput(_, _, _)
\* the loop over a list-valued output, from entry i on
ScanOutput(l, i, cur) ==
  IF i > Len(l) THEN Ok(cur)
  ELSE Let(EntryText(l[i], cur), LAMBDA r :
         IF r.raised THEN r
         ELSE IF Truthy(r.v) THEN r
         ELSE ScanOutput(l, i + 1, r.v))

\* output_text after the "output" block
OutputText(resp) ==
  IF ~Has(resp, K_output) THEN Ok(EmptyStr)
  ELSE LET output == resp.d[K_output]
       IN IF IsStr(output) THEN Ok(output)
          ELSE IF IsList(output) THEN ScanOutput(output.l, 1, EmptyStr)
          ELSE Ok(EmptyStr)

\* "message" in choice
MessageIn(choice) ==
  CASE choice.k = "dict" -> Ok(Has(choice, S_message))
    [] choice.k = "str" -> Ok(Contains(choice.s, S_message))
    [] choice.k = "list" -> Ok(\E j \in 1..Len(choice.l) : choice.l[j] = Str(S_message))
    [] OTHER -> Raise("TypeError")

\* choice["message"].get("content", "")
ChoiceContent(choice) ==
  IF ~IsDict(choice) THEN Raise("TypeError")
  ELSE IF ~IsDict(choice.d[S_message]) THEN Raise("AttributeError")
  ELSE Ok(Get(choice.d[S_message], K_content, EmptyStr))

RECURSIVE ScanChoices(_, _, _)
\* the loop over choices, from choice i on
ScanChoices(cs, i, cur) ==
  IF i > Len(cs) THEN Ok(cur)
  ELSE Let(MessageIn(cs[i]), LAMBDA m :
         IF m.raised THEN m
         ELSE IF m.v THEN ChoiceContent(cs[i])
         ELSE ScanChoices(cs, i + 1, cur))

\* output_text after the "choices" block
ChoicesText(resp, cur) ==
  IF ~Truthy(cur) /\ Has(resp, K_choices)
  THEN IF ~Iterable(resp.d[K_choices]) THEN Raise("TypeError")
       ELSE ScanChoices(Iterate(resp.d[K_choices]), 1, cur)
  ELSE Ok(cur)

\* output_text as it stands at line 179
FoundText(resp) ==
  Let(OutputText(resp), LAMBDA o : IF o.raised THEN o ELSE ChoicesText(resp, o.v))

\* lines 184-190: the value bound to items once the text is searched
ExtractItems(text) ==
  IF ~IsStr(text) THEN Raise("TypeError")
  ELSE IF text.k = "str" THEN Ok(EmptyList)
  ELSE Let(JsonMatch(text.toks), LAMBDA m :
         IF m = <<>> THEN Ok(EmptyList)
         ELSE Let(Loads(m), LAMBDA data :
                IF data.raised THEN Ok(EmptyList)
                ELSE IF ~IsDict(data.v) THEN Raise("AttributeError")
                ELSE Ok(Get(data.v, S_items, EmptyList))))

DigitVal(c) == CHOOSE n \in 0..9 : DigitChar[n + 1] = c

RECURSIVE NatOf(_)
NatOf(ds) == IF Len(ds) = 0 THEN 0
             ELSE 10 * NatOf(SubSeq(ds, 1, Len(ds) - 1)) + DigitVal(ds[Len(ds)])

AllDigits(s) == Len(s) > 0 /\ \A i \in 1..Len(s) : s[i] \in Digits

\* float(s) for a str, in tenths: [-]digits[.digit]; anything else is a ValueError
FloatOfStr(s0) ==
  LET s == Strip(s0)
      neg == Len(s) > 0 /\ s[1] = "-"
      u == IF neg THEN Tail(s) ELSE s
      sign == IF neg THEN -1 ELSE 1
  IN IF AllDigits(u) THEN Ok(sign * 10 * NatOf(u))
     ELSE IF /\ Len(u) >= 3
             /\ u[Len(u) - 1] = "."
             /\ AllDigits(SubSeq(u, 1, Len(u) - 2))
             /\ u[Len(u)] \in Digits
          THEN Ok(sign * (10 * NatOf(SubSeq(u, 1, Len(u) - 2)) + DigitVal(u[Len(u)])))
     ELSE Raise("ValueError")

\* float(v), in tenths
FloatOf(v) ==
  CASE v.k = "float" -> Ok(v.t)
    [] v.k = "int" -> Ok(10 * v.n)
    [] v.k = "bool" -> Ok(IF v.b THEN 10 ELSE 0)
    [] v.k = "str" -> FloatOfStr(v.s)
    [] OTHER -> Raise("TypeError")

Min(a, b) == IF a <= b THEN a ELSE b
Max(a, b) == IF a >= b THEN a ELSE b

\* min(1.0, max(0.0, x)), in tenths
Clamp(t) == Min(10, Max(0, t))

\* "reddit.com" in url
RedditIn(url) ==
  CASE url.k = "str" -> Ok(Contains(url.s, S_reddit_com))
    [] url.k = "list" -> Ok(\E j \in 1..Len(url.l) : url.l[j] = Str(S_reddit_com))
    [] url.k = "dict" -> Ok(S_reddit_com \in DOMAIN url.d)
    [] OTHER -> Raise("TypeError")

\* re.match(r'^\d{4}-\d{2}-\d{2}$', s): $ also matches before a final newline
DateMatch(s) ==
  LET t == IF Len(s) = 11 /\ s[11] = "\n" THEN SubSeq(s, 1, 10) ELSE s
  IN /\ Len(t) = 10
     /\ \A i \in {1, 2, 3, 4, 6, 7, 9, 10} : t[i] \in Digits
     /\ t[5] = "-" /\ t[8] = "-"

\* str(item.get("subreddit", "")).strip().lstrip("r/")
CleanSubreddit(item) == LStripSet(Strip(PyStr(Get(item, K_subreddit, EmptyStr))), {"r", "/"})

\* lines 207 and 213-215: the date kept for the item
CleanDate(item) ==
  LET dt == Get(item, K_date, None)
  IN IF Truthy(dt) /\ ~DateMatch(PyStr(dt)) THEN None ELSE dt

\* f"R{i}": the id taken from the 0-based index
ItemIdZeroBased(pos) == Str(<<"R">> \o NatStr(pos - 1))

\* f"R{i+1}", for the 1-based position pos
ItemId(pos) == Str(<<"R">> \o NatStr(pos))

Skip == [raised |-> FALSE, skip |-> TRUE]
Keep(v) == [raised |-> FALSE, skip |-> FALSE, v |-> v]

\* one pass of the loop of lines 194-217, for the entry at 1-based position pos
CleanItem(pos, item) ==
  IF ~IsDict(item) THEN Skip
  ELSE LET url == Get(item, K_url, EmptyStr)
       IN IF ~Truthy(url) THEN Skip
          ELSE LET in == RedditIn(url)
               IN IF in.raised THEN in
                  ELSE IF ~in.v THEN Skip
                  ELSE LET rel == FloatOf(Get(item, K_relevance, Float(5)))
                       IN IF rel.raised THEN rel
                          ELSE Keep(Dict(
                                 (K_id :> ItemId(pos))
                                 @@ (K_title :> Str(Strip(PyStr(Get(item, K_title, EmptyStr)))))
                                 @@ (K_url :> url)
                                 @@ (K_subreddit :> Str(CleanSubreddit(item)))
                                 @@ (K_date :> CleanDate(item))
                                 @@ (K_why_relevant :>
                                       Str(Strip(PyStr(Get(item, K_why_relevant, EmptyStr)))))
                                 @@ (K_relevance :> Float(Clamp(rel.v)))))

RECURSIVE CleanItems(_, _, _)
\* the loop of lines 194-217 over the entries es, from position pos on
CleanItems(es, pos, acc) ==
  IF pos > Len(es) THEN Ok(List(acc))
  ELSE Let(CleanItem(pos, es[pos]), LAMBDA r :
         IF r.raised THEN r
         ELSE IF r.skip THEN CleanItems(es, pos + 1, acc)
         ELSE CleanItems(es, pos + 1, Append(acc, r.v)))

\* the value of items at line 192 (error and no-text returns leave it [])
ParsedItems(resp) ==
  IF ErrorShortCircuit(resp) THEN Ok(EmptyList)
  ELSE Let(FoundText(resp), LAMBDA t :
         IF t.raised THEN t
         ELSE IF ~Truthy(t.v) THEN Ok(EmptyList)
         ELSE ExtractItems(t.v))

\* parse_reddit_response(response): Ok(list of items) or the exception raised
ParseRedditResponse(resp) ==
  Let(ParsedItems(resp), LAMBDA p :
    IF p.raised THEN p
    ELSE IF ~Iterable(p.v) THEN Raise("TypeError")
    ELSE Let(Iterate(p.v), LAMBDA es : CleanItems(es, 1, <<>>)))

(* ------------------------------ inputs --------------------------------- *)

SeqsUpTo(S, n) == UNION {[1..m -> S] : m \in 0..n}

\* d with key set to v / d without key
With(d, key, v) == Dict((key :> v) @@ d.d)
Without(d, key) == Dict([x \in (DOMAIN d.d) \ {key} |-> d.d[x]])

S_date == <<"2","0","2","4","-","0","1","-","1","5">>
UrlGood == Str(<<"w",".">> \o S_reddit_com \o <<"/","r","/","a">>)
UrlDev == Str(<<"d","e","v",".">> \o S_reddit_com)
UrlOther == Str(<<"x",".","c","o","m">>)

BaseEntry ==
  Dict((K_title :> Str(<<"T">>)) @@ (K_url :> UrlGood) @@ (K_subreddit :> Str(<<"u">>))
       @@ (K_date :> Str(S_date)) @@ (K_why_relevant :> Str(<<"w">>))
       @@ (K_relevance :> Float(8)))

UrlVals ==
  {None, EmptyStr, UrlOther, UrlDev, Str(S_reddit_com), Int_(5), Int_(0), Bool(TRUE),
   List(<<Str(S_reddit_com)>>), List(<<UrlGood>>), EmptyList,
   Dict(S_reddit_com :> None), EmptyDict}

RelVals ==
  {None, Float(17), Float(-3), Float(5), Float(0), Float(10), Int_(1), Int_(2), Int_(-1),
   Bool(TRUE), Str(<<"h","i","g","h">>), Str(<<"0",".","9">>), Str(<<" ","1"," ">>),
   EmptyStr, EmptyList}

DateVals ==
  {None, Str(S_date \o <<"\n">>), Str(<<"2","0","2","4","-","1","-","5">>),
   Str(<<"2","0","2","4","/","0","1","/","1","5">>), Str(<<"x">>), EmptyStr,
   Int_(0), Int_(2024), Bool(FALSE), Bool(TRUE), Float(0), EmptyList, List(<<Int_(1)>>)}

TextVals ==
  {None, EmptyStr, Str(<<" ","T"," ">>), Str(<<"\n","a"," ","b","\t">>), Int_(5),
   Bool(FALSE), Float(17), List(<<Str(<<"a">>), Int_(1)>>)}

SubChars == {"r", "/", " ", "u"}
SubVals == {Str(s) : s \in SeqsUpTo(SubChars, MaxSubLen)} \cup {None, Int_(5)}

Variants(key, vals) == {With(BaseEntry, key, v) : v \in vals} \cup {Without(BaseEntry, key)}

\* entries that vary one field of BaseEntry, and entries that are no mapping
Entries ==
  Variants(K_url, UrlVals) \cup Variants(K_relevance, RelVals)
    \cup Variants(K_date, DateVals) \cup Variants(K_title, TextVals)
    \cup Variants(K_why_relevant, TextVals) \cup Variants(K_subreddit, SubVals)
    \cup {Int_(1), None, Str(S_reddit_com), List(<<BaseEntry>>), EmptyDict}

Entry2 == With(With(BaseEntry, K_title, Str(<<"B">>)), K_relevance, Float(17))
Entry3 == With(With(BaseEntry, K_title, Str(<<"C">>)), K_date, None)
Entry4 == With(BaseEntry, K_title, Str(<<"D">>))

\* entries combined into longer lists
CoreEntries == {BaseEntry, Entry2, With(BaseEntry, K_url, UrlOther),
                Without(BaseEntry, K_url), Int_(1)}

ItemLists == {<<e>> : e \in Entries} \cup SeqsUpTo(CoreEntries, MaxItems)

\* the text of the JSON object {"items": P}
Doc(P) == Dumps(Dict(S_items :> P))

Doc1 == Doc(List(<<BaseEntry>>))

\* texts around one document: prose, stray braces, other keys, other item values
OddTexts ==
  {Text(<<Prose>> \o Doc1 \o <<Prose>>),
   Text(<<Prose>>),
   Text(<<LBrace, Prose>> \o Doc1),
   Text(Doc1 \o <<Prose, RBrace>>),
   Text(Doc1 \o <<Prose>> \o Doc(EmptyList)),
   Text(<<Prose, LBrack>> \o Doc1 \o <<RBrack>>),
   Text(Dumps(Dict(K_data :> List(<<BaseEntry>>)))),
   Text(Dumps(Dict(K_data :> Dict(S_items :> List(<<BaseEntry>>))))),
   Text(Dumps(Dict((K_title :> Str(S_items)) @@ (K_data :> EmptyList)))),
   Text(<<LBrace, Lit(Str(S_items)), Colon, LBrack, RBrack, Comma,
          Lit(Str(S_items)), Colon>> \o Dumps(List(<<BaseEntry>>)) \o <<RBrace>>),
   Text(<<LBrace, Lit(Str(S_items)), Colon, LBrack>> \o Dumps(BaseEntry)
          \o <<Comma, RBrack, RBrace>>),
   Text(<<LBrace, Lit(Str(S_items)), Colon, RBrace>>),
   Text(<<LBrace, Lit(Str(S_items)), RBrace>>),
   Str(<<"h","i">>)}
    \cup {Text(Doc(v)) : v \in {None, Int_(5), Int_(0), Bool(TRUE), Str(<<"a","b">>),
                                BaseEntry, EmptyDict, Float(5)}}

Texts == {Text(Doc(List(P))) : P \in ItemLists} \cup OddTexts

TextA == Text(Doc1)
TextB == Text(Doc(List(<<Entry2>>)))
TextC == Text(Doc(List(<<Entry3>>)))
TextD == Text(Doc(List(<<Entry4>>)))

OutputTextEntry(t) == Dict((K_type :> Str(S_output_text)) @@ (K_text :> t))
Message(content) == Dict((K_type :> Str(S_message)) @@ (K_content :> content))

\* entries of a list-valued output
OutputEntries ==
  {Message(List(<<OutputTextEntry(TextA)>>)),
   Message(List(<<OutputTextEntry(EmptyStr)>>)),
   Message(List(<<OutputTextEntry(EmptyStr), OutputTextEntry(TextB)>>)),
   Message(List(<<Dict(K_type :> Str(<<"x">>)), Int_(1), OutputTextEntry(TextA)>>)),
   Message(List(<<Dict(K_type :> Str(S_output_text))>>)),
   Message(EmptyList),
   Message(None),
   Dict(K_type :> Str(S_message)),
   Dict((K_type :> Str(<<"x">>)) @@ (K_text :> TextC)),
   Dict(K_text :> EmptyStr),
   Dict(K_text :> None),
   Dict(K_text :> Int_(5)),
   EmptyDict,
   TextC,
   EmptyStr,
   Int_(7)}

OutputLists == SeqsUpTo(OutputEntries, MaxOut)

Choice(content) == Dict(S_message :> Dict(K_content :> content))

ChoicesVals ==
  {List(<<Choice(TextD)>>),
   List(<<Dict(K_text :> TextA), Choice(TextD)>>),
   List(<<Choice(EmptyStr), Choice(TextD)>>),
   List(<<Dict(S_message :> EmptyDict)>>),
   List(<<Dict(S_message :> TextD)>>),
   List(<<Dict(S_message :> None)>>),
   List(<<Int_(1)>>),
   List(<<Str(S_message)>>),
   List(<<List(<<Str(S_message)>>)>>),
   List(<<Choice(Int_(5))>>),
   EmptyList, None, Int_(3), Str(<<"a">>)}

ErrorVals ==
  {None, EmptyStr, EmptyDict, Int_(0), Bool(FALSE), EmptyList,
   Str(<<"b","o","o","m">>), Dict(S_message :> Str(<<"r","a","t","e">>)),
   Dict(K_type :> Str(<<"x">>)), Int_(500), Bool(TRUE), List(<<Str(<<"e">>)>>)}

Responses ==
  {Dict(K_output :> t) : t \in Texts}
    \cup {Dict(K_output :> List(l)) : l \in OutputLists}
    \cup {Dict((K_output :> List(l)) @@ (K_choices :> List(<<Choice(TextD)>>))) :
            l \in OutputLists}
    \cup {Dict(K_choices :> c) : c \in ChoicesVals}
    \cup {Dict((K_output :> EmptyStr) @@ (K_choices :> c)) : c \in ChoicesVals}
    \cup {Dict((K_output :> TextA) @@ (K_choices :> c)) : c \in ChoicesVals}
    \cup {Dict(K_error :> e) : e \in ErrorVals}
    \cup {Dict((K_error :> e) @@ (K_output :> TextA)) : e \in ErrorVals}
    \cup {Dict((K_error :> e) @@ (K_output :> List(<<TextC>>))
               @@ (K_choices :> List(<<Choice(TextD)>>))) : e \in ErrorVals}
    \cup {EmptyDict, Dict(K_output :> None), Dict(K_output :> Int_(5)),
          Dict(K_output :> BaseEntry)}

\* a few responses: those a test hands in as mock_response, and those the
\* transport returns in the search specification
SampleResponses == {EmptyDict, Dict(K_output :> TextA), Dict(K_output :> EmptyStr),
          Dict(K_error :> Str(<<"b","o","o","m">>)),
          Dict(K_output :> Text(Doc(List(<<With(BaseEntry, K_url, UrlOther), Entry2>>))))}

Depths == {"quick", "default", "deep", "bogus", "", "DEEP"}

(* --------------------------- search_reddit ----------------------------- *)

DEPTH_CONFIG == [quick |-> <<8, 12>>, default |-> <<20, 30>>, deep |-> <<50, 70>>]

\* DEPTH_CONFIG.get(depth, DEPTH_CONFIG["default"])
DepthItems(dp) ==
  IF dp \in DOMAIN DEPTH_CONFIG THEN DEPTH_CONFIG[dp] ELSE DEPTH_CONFIG["default"]

\* timeout = 60 if depth == "quick" else 90 if depth == "default" else 120
DepthTimeout(dp) == IF dp = "quick" THEN 60 ELSE IF dp = "default" THEN 90 ELSE 120

\* "if mock_response:" in place of "is not None"
MockTruthy(m) == m /= None /\ Truthy(m)

\* mock_response is not None
MockSupplied(m) == m /= None

(* ---------------------------- state machine ---------------------------- *)

NoOutcome == [raised |-> FALSE, v |-> None]

Init ==
  /\ pc = "idle"
  /\ depth = "default"
  /\ mock = None
  /\ min_items = 0
  /\ max_items = 0
  /\ timeout = 0
  /\ post_calls = 0
  /\ search_out = NoOutcome
  /\ response = None
  /\ output_text = EmptyStr
  /\ items = EmptyList
  /\ result = NoOutcome
  /\ reparsed = NoOutcome

\* search_reddit up to its return (mock supplied) or its transport call
SearchReddit(dp, m) ==
  /\ pc = "idle"
  /\ depth' = dp
  /\ mock' = m
  /\ IF MockSupplied(m)
     THEN /\ search_out' = Ok(m)
          /\ pc' = "searched"
          /\ UNCHANGED <<min_items, max_items, timeout>>
     ELSE /\ min_items' = DepthItems(dp)[1]
          /\ max_items' = DepthItems(dp)[2]
          /\ timeout' = DepthTimeout(dp)
          /\ pc' = "post"
          /\ UNCHANGED search_out
  /\ UNCHANGED <<post_calls, response, output_text, items, result, reparsed>>

\* http.post returns r, which search_reddit returns
PostReturns(r) ==
  /\ pc = "post"
  /\ post_calls' = post_calls + 1
  /\ search_out' = Ok(r)
  /\ pc' = "searched"
  /\ UNCHANGED <<depth, mock, min_items, max_items, timeout, response, output_text,
                 items, result, reparsed>>

\* http.post raises, and search_reddit lets the error through
PostFails ==
  /\ pc = "post"
  /\ post_calls' = post_calls + 1
  /\ search_out' = Raise("HTTPError")
  /\ pc' = "failed"
  /\ UNCHANGED <<depth, mock, min_items, max_items, timeout, response, output_text,
                 items, result, reparsed>>

\* the locals of parse_reddit_response(resp) when it ends
TextAtEnd(resp) ==
  IF ErrorShortCircuit(resp) THEN EmptyStr
  ELSE Let(FoundText(resp), LAMBDA t : IF t.raised THEN EmptyStr ELSE t.v)
ItemsAtEnd(resp) ==
  Let(ParsedItems(resp), LAMBDA p : IF p.raised THEN EmptyList ELSE p.v)

\* the caller hands the response search_reddit returned to parse_reddit_response
Parse ==
  /\ pc = "searched"
  /\ response' = search_out.v
  /\ output_text' = TextAtEnd(search_out.v)
  /\ items' = ItemsAtEnd(search_out.v)
  /\ result' = ParseRedditResponse(search_out.v)
  /\ pc' = "parsed"
  /\ UNCHANGED <<depth, mock, min_items, max_items, timeout, post_calls, search_out,
                 reparsed>>

\* the response whose output text is the JSON object {"items": L}
Synthetic(L) == Dict(K_output :> Text(Doc(L)))

\* parse_reddit_response again, on the list it returned re-embedded as items
Reparse ==
  /\ pc = "parsed"
  /\ ~result.raised
  /\ \E again \in {Synthetic(result.v)} : reparsed' = ParseRedditResponse(again)
  /\ pc' = "reparsed"
  /\ UNCHANGED <<depth, mock, min_items, max_items, timeout, post_calls, search_out,
                 response, output_text, items, result>>

Next ==
  \/ \E dp \in Depths, m \in SampleResponses \cup {None} : SearchReddit(dp, m)
  \/ \E r \in SampleResponses : PostReturns(r)
  \/ PostFails
  \/ Parse
  \/ Reparse

\* a search followed by the parse of what it returned
Spec == Init /\ [][Next]_vars

\* search_reddit has returned some response of Responses
InitParse ==
  /\ pc = "searched"
  /\ depth = "default"
  /\ mock = None
  /\ min_items = DepthItems("default")[1]
  /\ max_items = DepthItems("default")[2]
  /\ timeout = DepthTimeout("default")
  /\ post_calls = 1
  /\ search_out \in {Ok(r) : r \in Responses}
  /\ response = None
  /\ output_text = EmptyStr
  /\ items = EmptyList
  /\ result = NoOutcome
  /\ reparsed = NoOutcome

NextParse == Parse \/ Reparse

\* parse_reddit_response over every response of Responses
SpecParse == InitParse /\ [][NextParse]_vars

(* ------------------------------- claims -------------------------------- *)

\* parse_reddit_response has ended / has returned a list
ParseEnded == pc \in {"parsed", "reparsed"}
ParseReturned == ParseEnded /\ ~result.raised

\* the items of the returned list, and the entries the loop walked
Out == result.v.l
Walked == Iterate(items)

Field(item, key) == item.d[key]

\* the 1-based position an output item's id names
IdOf(k) == Str(<<"R">> \o NatStr(k))

\* C1: parse_reddit_response never raises; whatever the response holds, it
\* returns a list of well-formed items.
C1_NeverRaises ==
  ParseEnded =>
    /\ ~result.raised
    /\ IsList(result.v)
    /\ \A j \in 1..Len(Out) :
         /\ IsDict(Out[j])
         /\ DOMAIN Out[j].d = {K_id, K_title, K_url, K_subreddit, K_date,
                               K_why_relevant, K_relevance}

\* C2: a response whose top-level error is present and truthy parses to the
\* empty list, whatever output and choices hold; no text is extracted and no
\* item is normalised.
C2_ErrorYieldsEmpty ==
  (ParseEnded /\ Has(response, K_error) /\ Truthy(response.d[K_error])) =>
    /\ result = Ok(EmptyList)
    /\ output_text = EmptyStr
    /\ items = EmptyList

\* a string error next to an output that holds a valid item, parsed to []
C2_Witness ==
  /\ pc = "parsed"
  /\ Has(response, K_error)
  /\ response.d[K_error] = Str(<<"b","o","o","m">>)
  /\ Has(response, K_output)
  /\ response.d[K_output] = TextA
  /\ result = Ok(EmptyList)

\* C3: a depth tag outside {quick, default, deep} resolves to the default
\* profile: (20, 30) items and a 90 second timeout.
C3_UnknownDepthIsDefault ==
  (pc = "post" /\ depth \notin {"quick", "default", "deep"}) =>
    /\ <<min_items, max_items>> = <<20, 30>>
    /\ timeout = 90

\* C4: every returned item has a relevance within [0.0, 1.0] and a url that
\* is a string containing "reddit.com"; an entry whose url is missing, empty
\* or lacks the substring is not in the output.
C4_RelevanceAndUrl ==
  ParseReturned =>
    \A j \in 1..Len(Out) :
      /\ Field(Out[j], K_relevance).k = "float"
      /\ Field(Out[j], K_relevance).t \in 0..10
      /\ Field(Out[j], K_url).k = "str"
      /\ Contains(Field(Out[j], K_url).s, S_reddit_com)

\* exactly four digits, a hyphen, two digits, a hyphen, two digits
ExactDateShape(s) ==
  /\ Len(s) = 10
  /\ \A i \in {1, 2, 3, 4, 6, 7, 9, 10} : s[i] \in Digits
  /\ s[5] = "-" /\ s[8] = "-"

\* C5: every returned item has a date that is null or a string of exactly
\* the shape YYYY-MM-DD; any other input date comes out as null.
C5_DateNullOrShape ==
  ParseReturned =>
    \A j \in 1..Len(Out) :
      \/ Field(Out[j], K_date) = None
      \/ /\ Field(Out[j], K_date).k = "str"
         /\ ExactDateShape(Field(Out[j], K_date).s)

\* C6: parsing the list L a parse returned, re-embedded as {"items": L},
\* returns a list of the same length whose items equal those of L field by
\* field, the id included when the second parse drops nothing.
C6_ReparseSame ==
  pc = "reparsed" =>
    /\ ~reparsed.raised
    /\ Len(reparsed.v.l) = Len(Out)
    /\ \A j \in 1..Len(Out) :
         \A key \in {K_id, K_title, K_url, K_subreddit, K_date, K_why_relevant,
                     K_relevance} :
           Field(reparsed.v.l[j], key) = Field(Out[j], key)

\* C7: search_reddit calls the transport zero times when a mock is supplied,
\* and returns the mock unchanged; otherwise it calls it exactly once, and a
\* transport failure is not followed by a second call and reaches the caller.
C7_PostCalls ==
  /\ post_calls \in {0, 1}
  /\ (mock /= None /\ pc /= "idle") =>
       /\ post_calls = 0
       /\ pc \notin {"post", "failed"}
       /\ search_out = Ok(mock)
  /\ (mock = None /\ pc = "post") => post_calls = 0
  /\ (mock = None /\ pc \in {"searched", "failed", "parsed", "reparsed"}) =>
       post_calls = 1
  /\ pc = "failed" => (search_out.raised /\ post_calls = 1)

\* the empty dict handed in as mock comes back without a transport call
C7_Witness ==
  /\ pc = "searched"
  /\ mock = EmptyDict
  /\ post_calls = 0
  /\ search_out = Ok(EmptyDict)

\* an entry the claim keeps: a mapping whose url contains "reddit.com"
UrlHasReddit(e) ==
  /\ IsDict(e)
  /\ Has(e, K_url)
  /\ Field(e, K_url).k \in {"str", "list", "dict"}
  /\ CASE Field(e, K_url).k = "str" -> Contains(Field(e, K_url).s, S_reddit_com)
       [] Field(e, K_url).k = "list" ->
            \E n \in 1..Len(Field(e, K_url).l) : Field(e, K_url).l[n] = Str(S_reddit_com)
       [] Field(e, K_url).k = "dict" -> S_reddit_com \in DOMAIN Field(e, K_url).d

\* C8: the output is the subsequence of the parsed entries that are mappings
\* with a url containing "reddit.com", in their order, and the item made from
\* the entry at 1-based position k has id "R" + k.
C8_SubsequenceWithIds ==
  ParseReturned =>
    \E kept \in {{k \in 1..Len(Walked) : UrlHasReddit(Walked[k])}} :
      /\ Len(Out) = Cardinality(kept)
      /\ \A j \in 1..Len(Out) :
           \E k \in kept :
             /\ Cardinality({h \in kept : h <= k}) = j
             /\ Field(Out[j], K_id) = IdOf(k)
             /\ Field(Out[j], K_url) = Field(Walked[k], K_url)
      /\ \A j \in 1..Len(Out), h \in 1..Len(Out) :
           j /= h => Field(Out[j], K_id) /= Field(Out[h], K_id)

\* a skipped entry ahead of a kept one: the kept one is R2
C8_Witness ==
  /\ pc = "parsed"
  /\ ~result.raised
  /\ Len(Walked) = 2
  /\ ~UrlHasReddit(Walked[1])
  /\ Len(Out) = 1
  /\ Field(Out[1], K_id) = IdOf(2)

\* the candidate texts of one output entry, in the order the claim scans them
Candidates(e) ==
  IF IsDict(e)
  THEN IF Get(e, K_type, None) = Str(S_message)
       THEN LET IsOT(c) == IsDict(c) /\ Get(c, K_type, None) = Str(S_output_text)
                ots == SelectSeq(Get(e, K_content, EmptyList).l, IsOT)
            IN [n \in 1..Len(ots) |-> Get(ots[n], K_text, EmptyStr)]
       ELSE IF Has(e, K_text) THEN <<Field(e, K_text)>> ELSE <<>>
  ELSE IF IsStr(e) THEN <<e>> ELSE <<>>

RECURSIVE AllCandidates(_, _)
AllCandidates(l, i) ==
  IF i > Len(l) THEN <<>> ELSE Candidates(l[i]) \o AllCandidates(l, i + 1)

\* a list-valued output whose message contents are lists and whose candidate
\* texts are all strings
WellTypedOutput(resp) ==
  /\ ~(Has(resp, K_error) /\ Truthy(resp.d[K_error]))
  /\ Has(resp, K_output)
  /\ IsList(resp.d[K_output])
  /\ \A i \in 1..Len(resp.d[K_output].l) :
       LET e == resp.d[K_output].l[i]
       IN /\ (IsDict(e) /\ Get(e, K_type, None) = Str(S_message)) =>
               IsList(Get(e, K_content, EmptyList))
          /\ \A n \in 1..Len(Candidates(e)) : IsStr(Candidates(e)[n])

\* C9: with a list-valued output, the answer text is the first non-empty of
\* the candidate texts of the whole list; an empty candidate does not stop the
\* scan, and choices is consulted only when no candidate is non-empty.
C9_FirstNonEmptyText ==
  (pc = "parsed" /\ WellTypedOutput(response)) =>
    \E cands \in {AllCandidates(response.d[K_output].l, 1)} :
      \E full \in {{n \in 1..Len(cands) : Truthy(cands[n])}} :
        /\ full /= {} =>
             \E n \in full : /\ \A o \in full : n <= o
                             /\ output_text = cands[n]
        /\ (full = {} /\ ~Has(response, K_choices)) => ~Truthy(output_text)

\* a name with one leading "r/" removed
WithoutPrefix(s) ==
  IF Len(s) >= 2 /\ s[1] = "r" /\ s[2] = "/" THEN SubSeq(s, 3, Len(s)) ELSE s

\* C10: the output subreddit is the input coerced to a string and trimmed,
\* with a leading "r/" prefix removed and the rest intact, and it has no
\* leading or trailing whitespace.
C10_SubredditPrefix ==
  ParseReturned =>
    \A j \in 1..Len(Out) :
      \E k \in 1..Len(Walked) :
        /\ Field(Out[j], K_id) = IdOf(k)
        /\ \E sub \in {Field(Out[j], K_subreddit).s} :
             /\ sub = WithoutPrefix(Strip(PyStr(Get(Walked[k], K_subreddit, EmptyStr))))
             /\ (Len(sub) > 0 => (sub[1] \notin Whitespace /\ sub[Len(sub)] \notin Whitespace))

====
